---- MODULE Spec2Model ----
(***************************************************************************)
(* A model of ironite's site generator (src/src/generator.rs).             *)
(*                                                                         *)
(* Strings are sequences of atoms.  The placeholder tokens are spelled     *)
(* character by character ("$","T","I","T","L","E"); every other piece of  *)
(* text is an opaque chunk that stands for text without a '$', so a token  *)
(* can only match where it is spelled out.                                 *)
(* Paths are sequences of components relative to the working directory.    *)
(***************************************************************************)
EXTENDS Naturals, Sequences, FiniteSets, TLC

VARIABLES src, files, dirs, pc, result, todo, tags_map, tag_i, writes, runs, prev, rp

vars == <<src, files, dirs, pc, result, todo, tags_map, tag_i, writes, runs, prev, rp>>

(***************************************************************************)
(* Bounds of the model.                                                    *)
(***************************************************************************)
MaxEntries == 2
MaxRuns == 2
MaxPieces == 2

(***************************************************************************)
(* Strings.                                                                *)
(***************************************************************************)
KeyContent == <<"$", "C", "O", "N", "T", "E", "N", "T">>
KeyTitle == <<"$", "T", "I", "T", "L", "E">>
KeyNavcloud == <<"$", "N", "A", "V", "C", "L", "O", "U", "D">>

IsMatchAt(s, i, pat) ==
    /\ i + Len(pat) - 1 <= Len(s)
    /\ \A j \in 1..Len(pat) : s[i + j - 1] = pat[j]

RECURSIVE ReplaceFrom(_, _, _, _)
ReplaceFrom(s, i, from, to) ==
    IF i > Len(s) THEN <<>>
    ELSE IF IsMatchAt(s, i, from)
         THEN to \o ReplaceFrom(s, i + Len(from), from, to)
         ELSE <<s[i]>> \o ReplaceFrom(s, i + 1, from, to)

RECURSIVE ReplaceFirstFrom(_, _, _, _)
ReplaceFirstFrom(s, i, from, to) ==
    IF i > Len(s) THEN <<>>
    ELSE IF IsMatchAt(s, i, from)
         THEN to \o SubSeq(s, i + Len(from), Len(s))
         ELSE <<s[i]>> \o ReplaceFirstFrom(s, i + 1, from, to)

\* str::replacen(from, to, 1) in place of str::replace
ReplaceOnlyFirst(s, from, to) == ReplaceFirstFrom(s, 1, from, to)

\* str::replace: every non-overlapping match, left to right
Replace(s, from, to) == ReplaceFrom(s, 1, from, to)

Perms(S) == {f \in [1..Cardinality(S) -> S] : \A i, j \in 1..Cardinality(S) : f[i] = f[j] => i = j}

RECURSIVE replace_loop(_, _, _, _)
replace_loop(res, placeholders, order, i) ==
    IF i > Len(order) THEN res
    ELSE replace_loop(Replace(res, order[i], placeholders[order[i]]), placeholders, order, i + 1)

\* order: the order in which the HashMap yields its keys
replace_placeholders(html_content, placeholders, order) ==
    replace_loop(html_content, placeholders, order, 1)

PageMap(content, title, nav) ==
    (KeyContent :> content) @@ (KeyTitle :> title) @@ (KeyNavcloud :> nav)

(***************************************************************************)
(* Names, their order, and paths.                                          *)
(***************************************************************************)
NamePool == <<"alpha", "beta", "gamma">>
Names == {NamePool[i] : i \in 1..MaxEntries}
StaleNames == {"old"}
Tags == {"x", "entries", ".."}

\* byte-wise order of the names and tags of the model
StrOrder == <<"..", "alpha", "beta", "entries", "gamma", "old", "x">>
InSet(S, a) == a \in S
\* sort / sort_by: the members of S in ascending order
Sorted(S) == SelectSeq(StrOrder, LAMBDA a : InSet(S, a))

RECURSIVE NormalizeFrom(_, _, _)
NormalizeFrom(p, i, acc) ==
    IF i > Len(p) THEN acc
    ELSE IF p[i] = "."
         THEN NormalizeFrom(p, i + 1, acc)
         ELSE IF p[i] = ".." /\ acc # <<>> /\ acc[Len(acc)] # ".."
              THEN NormalizeFrom(p, i + 1, SubSeq(acc, 1, Len(acc) - 1))
              ELSE NormalizeFrom(p, i + 1, Append(acc, p[i]))

\* the file or directory the operating system resolves a joined path to
Resolve(p) == NormalizeFrom(p, 1, <<>>)

public_dir == <<"public">>
entries_dir == <<"public", "entries">>
IndexOf(dir) == Resolve(dir \o <<"index.html">>)

Prefixes(p) == {SubSeq(p, 1, n) : n \in 1..Len(p)}
\* fs::create_dir_all when the path does not exist
create_directories(ds, path) == IF Resolve(path) \in ds THEN ds ELSE ds \cup Prefixes(Resolve(path))

\* fs::write
write_html_file(fs, path, content) == [q \in DOMAIN fs \cup {path} |-> IF q = path THEN content ELSE fs[q]]

(***************************************************************************)
(* The source tree.                                                        *)
(***************************************************************************)
\* entries/<name>/tags.txt: absent, or its whitespace-separated tokens
NoFile == [exists |-> FALSE, tokens |-> <<>>]
TagsFile(tokens) == [exists |-> TRUE, tokens |-> tokens]
TagFiles == {NoFile, TagsFile(<<>>), TagsFile(<<"x">>), TagsFile(<<"x", "x">>),
             TagsFile(<<"x", "entries">>), TagsFile(<<"..">>)}
EntryShapes ==
    {[kind |-> "none", content |-> FALSE, tags |-> NoFile],
     [kind |-> "file", content |-> FALSE, tags |-> NoFile]}
    \cup {[kind |-> "dir", content |-> c, tags |-> t] : c \in BOOLEAN, t \in TagFiles}
Missing == {"none", "static", "base.html", "about.html", "projectname.txt", "images"}

BaseHtml == <<"<title>">> \o KeyTitle \o <<"</title><nav>">> \o KeyNavcloud
            \o <<"</nav><main>">> \o KeyContent \o <<"</main>">>
AboutHtml == <<"<h1>about</h1>">> \o KeyNavcloud
ProjectName == <<"ironite">>
\* entries/<name>/content.html: beta's fragment quotes the token $TITLE
ContentOf(e) == IF e = "beta" THEN <<"<p>">> \o KeyTitle \o <<"</p>">> ELSE <<"<p>", e, "</p>">>

Children == {e \in Names : src.entries[e].kind # "none"}
IsDir(e) == src.entries[e].kind = "dir"
HasContent(e) == IsDir(e) /\ src.entries[e].content
TagsTxt(e) == src.entries[e].tags

SeqToSet(s) == {s[i] : i \in 1..Len(s)}
\* the tokens in file order, repeated ones kept
get_tags_dup(e) == IF ~IsDir(e) \/ ~TagsTxt(e).exists THEN <<>> ELSE TagsTxt(e).tokens
\* get_tags: the set of the whitespace-separated tokens, empty when unreadable
get_tags(e) == IF ~IsDir(e) \/ ~TagsTxt(e).exists THEN {} ELSE SeqToSet(TagsTxt(e).tokens)

EmptyMap == [t \in {} |-> <<>>]
RPIdle == [T |-> <<>>, M |-> EmptyMap, remaining |-> {}, result |-> <<>>]

(***************************************************************************)
(* generate_site                                                           *)
(***************************************************************************)
\* the source tree, over an output tree that may hold an earlier entry directory
InitTree ==
    /\ src \in [missing : Missing, entries_dir : BOOLEAN, entries : [Names -> EntryShapes],
                stale : SUBSET StaleNames]
    /\ ~src.entries_dir => \A e \in Names : src.entries[e].kind = "none"
    /\ dirs = IF src.stale = {} THEN {}
              ELSE {public_dir, entries_dir} \cup {entries_dir \o <<o>> : o \in src.stale}
    /\ files = [p \in {IndexOf(entries_dir \o <<o>>) : o \in src.stale} |-> <<"stale">>]
    /\ pc = "start"
    /\ result = "running"
    /\ todo = {}
    /\ tags_map = EmptyMap
    /\ tag_i = 1
    /\ writes = {}
    /\ runs = 1
    /\ prev = EmptyMap
    /\ rp = RPIdle

\* a first run: public/ does not exist yet
Init ==
    /\ InitTree
    /\ src.stale = {}

Fail == pc' = "done" /\ result' = "err"

\* lines 204-227: the three fatal reads
ReadInputs ==
    /\ pc = "start"
    /\ IF src.missing \in {"static", "base.html", "about.html", "projectname.txt"}
       THEN Fail
       ELSE pc' = "setup" /\ UNCHANGED result
    /\ UNCHANGED <<src, files, dirs, todo, tags_map, tag_i, writes, runs, prev, rp>>

StaticFiles == {<<"base.html">>, <<"about.html">>}
StaticContent(f) == IF f = <<"base.html">> THEN BaseHtml ELSE AboutHtml

\* lines 230-241: output directories, then the copies of static/ and images/
SetupOutput ==
    /\ pc = "setup"
    /\ LET d1 == create_directories(create_directories(dirs, public_dir), entries_dir)
           d2 == d1 \cup {public_dir \o <<"static">>}
           copied == {public_dir \o <<"static">> \o f : f \in StaticFiles}
           f2 == [q \in DOMAIN files \cup copied |->
                    IF q \in copied THEN StaticContent(<<q[3]>>) ELSE files[q]]
       IN  /\ files' = f2
           /\ writes' = writes \cup {[path |-> q, by |-> "copy", of |-> "static"] : q \in copied}
           /\ IF src.missing = "images"
              THEN dirs' = d2 /\ Fail
              ELSE /\ dirs' = d2 \cup {public_dir \o <<"images">>}
                   /\ pc' = "entry_pages"
                   /\ UNCHANGED result
    /\ UNCHANGED <<src, todo, tags_map, tag_i, runs, prev, rp>>

\* line 130: fs::read_dir(entries_dir)?
EntryPagesOpen ==
    /\ pc = "entry_pages"
    /\ IF ~src.entries_dir
       THEN Fail /\ UNCHANGED todo
       ELSE pc' = "entry_loop" /\ todo' = Children /\ UNCHANGED result
    /\ UNCHANGED <<src, files, dirs, tags_map, tag_i, writes, runs, prev, rp>>

\* the entry page is never written
generate_entry_page_nowrite(e, order) ==
    /\ dirs' = IF IsDir(e) THEN create_directories(dirs, entries_dir \o <<e>>) ELSE dirs
    /\ UNCHANGED <<files, writes>>

\* a missing content.html is rendered as an empty fragment
generate_entry_page_always(e, order) ==
    IF ~IsDir(e)
    THEN UNCHANGED <<files, dirs, writes>>
    ELSE LET new_entry_dir == entries_dir \o <<e>>
             body == IF HasContent(e) THEN ContentOf(e) ELSE <<>>
         IN  /\ dirs' = create_directories(dirs, new_entry_dir)
             /\ files' = write_html_file(files, IndexOf(new_entry_dir),
                            replace_placeholders(BaseHtml, PageMap(body, <<e>>, <<>>), order))
             /\ writes' = writes \cup {[path |-> IndexOf(new_entry_dir), by |-> "entry", of |-> e]}

\* lines 131-157: one iteration of the loop of generate_entry_pages
generate_entry_page(e, order) ==
    IF ~IsDir(e)
    THEN UNCHANGED <<files, dirs, writes>>
    ELSE LET new_entry_dir == entries_dir \o <<e>>
         IN  /\ dirs' = create_directories(dirs, new_entry_dir)
             /\ IF HasContent(e)
                THEN LET html == replace_placeholders(BaseHtml, PageMap(ContentOf(e), <<e>>, <<>>), order)
                     IN  /\ files' = write_html_file(files, IndexOf(new_entry_dir), html)
                         /\ writes' = writes \cup {[path |-> IndexOf(new_entry_dir), by |-> "entry", of |-> e]}
                ELSE UNCHANGED <<files, writes>>

PageKeys == {KeyContent, KeyTitle, KeyNavcloud}
\* the orders in which a HashMap of the three placeholders can yield them
PageKeyOrders == Perms(PageKeys)

EntryPageStep ==
    /\ pc = "entry_loop"
    /\ \E e \in todo :
         /\ \E order \in PageKeyOrders : generate_entry_page(e, order)
         /\ todo' = todo \ {e}
    /\ UNCHANGED <<src, pc, result, tags_map, tag_i, runs, prev, rp>>

\* line 159
EntryPagesDone ==
    /\ pc = "entry_loop"
    /\ todo = {}
    /\ pc' = "filter"
    /\ UNCHANGED <<src, files, dirs, result, todo, tags_map, tag_i, writes, runs, prev, rp>>

\* lines 66-75
FilterOpen ==
    /\ pc = "filter"
    /\ tags_map' = EmptyMap
    /\ IF ~src.entries_dir
       THEN pc' = "tag_pages" /\ todo' = {}
       ELSE pc' = "filter_loop" /\ todo' = Children
    /\ tag_i' = 1
    /\ UNCHANGED <<src, files, dirs, result, writes, runs, prev, rp>>

\* every token of tags.txt is pushed, repeated ones too
push_entry_dup(m, e) ==
    LET ts == get_tags_dup(e)
        n(t) == Cardinality({i \in 1..Len(ts) : ts[i] = t})
        rep(k) == [i \in 1..k |-> e]
    IN  [t \in DOMAIN m \cup SeqToSet(ts) |->
            IF t \in SeqToSet(ts)
            THEN (IF t \in DOMAIN m THEN m[t] ELSE <<>>) \o rep(n(t))
            ELSE m[t]]

\* lines 84-88: the entry is appended to the list of each of its tags
push_entry(m, e) ==
    [t \in DOMAIN m \cup get_tags(e) |->
        IF t \in get_tags(e)
        THEN Append(IF t \in DOMAIN m THEN m[t] ELSE <<>>, e)
        ELSE m[t]]

\* lines 76-89: one iteration of the loop of filter_entries_by_tag
FilterStep ==
    /\ pc = "filter_loop"
    /\ \E e \in todo :
         /\ tags_map' = IF IsDir(e) THEN push_entry(tags_map, e) ELSE tags_map
         /\ todo' = todo \ {e}
    /\ UNCHANGED <<src, files, dirs, pc, result, tag_i, writes, runs, prev, rp>>

\* line 94
FilterDone ==
    /\ pc = "filter_loop"
    /\ todo = {}
    /\ pc' = "tag_pages"
    /\ UNCHANGED <<src, files, dirs, result, todo, tags_map, tag_i, writes, runs, prev, rp>>

\* String::push_str of each item in turn
RECURSIVE Concat(_)
Concat(items) == IF items = <<>> THEN <<>> ELSE Head(items) \o Concat(Tail(items))

\* line 176
TagLink(title) == <<"<a href=\"", "../entries/", title, "/index.html\">", title, "</a><br>">>
\* line 296
ListLink(title) == <<"<a href=\"", title, "/index.html\">", title, "</a><br>">>
\* line 256
NavLink(tag) == <<"<a href=\"", tag, "/index.html\">", tag, "</a>">>

SortedTags == Sorted(DOMAIN tags_map)

\* lines 168-189: one iteration of the loop of generate_tag_pages
TagPageStep ==
    /\ pc = "tag_pages"
    /\ tag_i <= Len(SortedTags)
    /\ LET tag == SortedTags[tag_i]
           tag_dir == public_dir \o <<tag>>
           tag_content == Concat([i \in 1..Len(tags_map[tag]) |-> TagLink(tags_map[tag][i])])
       IN  /\ dirs' = create_directories(dirs, tag_dir)
           /\ \E order \in PageKeyOrders :
                files' = write_html_file(files, IndexOf(tag_dir),
                            replace_placeholders(BaseHtml, PageMap(tag_content, <<tag>>, <<>>), order))
           /\ writes' = writes \cup {[path |-> IndexOf(tag_dir), by |-> "tag", of |-> tag]}
    /\ tag_i' = tag_i + 1
    /\ UNCHANGED <<src, pc, result, todo, tags_map, runs, prev, rp>>

\* line 191
TagPagesDone ==
    /\ pc = "tag_pages"
    /\ tag_i > Len(SortedTags)
    /\ pc' = "home"
    /\ UNCHANGED <<src, files, dirs, result, todo, tags_map, tag_i, writes, runs, prev, rp>>

\* lines 251-276: the navigation cloud and the home page
WriteHome ==
    /\ pc = "home"
    /\ LET nav_cloud == Concat([i \in 1..Len(SortedTags) |-> NavLink(SortedTags[i])])
           parsed_about == replace_placeholders(AboutHtml, KeyNavcloud :> nav_cloud, <<KeyNavcloud>>)
       IN  \E order \in PageKeyOrders :
             files' = write_html_file(files, IndexOf(public_dir),
                         replace_placeholders(BaseHtml, PageMap(parsed_about, ProjectName, <<>>), order))
    /\ writes' = writes \cup {[path |-> IndexOf(public_dir), by |-> "home", of |-> "home"]}
    /\ pc' = "listing"
    /\ UNCHANGED <<src, dirs, result, todo, tags_map, tag_i, runs, prev, rp>>

\* lines 280-283: the subdirectories of public/entries
ListedDirs == {d[3] : d \in {q \in dirs : Len(q) = 3 /\ SubSeq(q, 1, 2) = entries_dir}}

\* lines 280-309: the entries listing page
WriteEntriesIndex ==
    /\ pc = "listing"
    /\ LET entries == Sorted(ListedDirs)
           entries_index_content == Concat([i \in 1..Len(entries) |-> ListLink(entries[i])])
       IN  \E order \in PageKeyOrders :
             files' = write_html_file(files, IndexOf(entries_dir),
                         replace_placeholders(BaseHtml, PageMap(entries_index_content, <<"Entries">>, <<>>), order))
    /\ writes' = writes \cup {[path |-> IndexOf(entries_dir), by |-> "listing", of |-> "entries"]}
    /\ pc' = "done"
    /\ result' = "ok"
    /\ UNCHANGED <<src, dirs, todo, tags_map, tag_i, runs, prev, rp>>

\* the generator is invoked again over the unchanged source tree
Rerun ==
    /\ pc = "done"
    /\ runs < MaxRuns
    /\ runs' = runs + 1
    /\ prev' = files
    /\ pc' = "start"
    /\ result' = "running"
    /\ todo' = {}
    /\ tags_map' = EmptyMap
    /\ tag_i' = 1
    /\ writes' = {}
    /\ UNCHANGED <<src, files, dirs, rp>>

Next ==
    \/ ReadInputs
    \/ SetupOutput
    \/ EntryPagesOpen
    \/ EntryPageStep
    \/ EntryPagesDone
    \/ FilterOpen
    \/ FilterStep
    \/ FilterDone
    \/ TagPageStep
    \/ TagPagesDone
    \/ WriteHome
    \/ WriteEntriesIndex

Spec == Init /\ [][Next]_vars

NextRerun ==
    \/ Next
    \/ Rerun

\* runs one after another, over whatever public/ already holds
SpecRerun == InitTree /\ [][NextRerun]_vars

(***************************************************************************)
(* replace_placeholders on its own: bounded templates and placeholder      *)
(* maps, the loop of lines 17-19 taken one key at a time in any order.     *)
(***************************************************************************)
FragHead == <<"$", "T", "I">>
FragTail == <<"T", "L", "E">>
Pieces == {KeyContent, KeyTitle, FragHead, FragTail, <<"x">>}

RECURSIVE TemplatesOf(_)
TemplatesOf(n) == IF n = 0 THEN {<<>>} ELSE {<<>>} \cup {p \o t : p \in Pieces, t \in TemplatesOf(n - 1)}

Templates == TemplatesOf(MaxPieces)
Values == {<<>>, <<"x">>, KeyTitle, FragTail}
PlaceholderMaps == [PageKeys -> Values] \cup [{KeyNavcloud} -> Values]

InitRP ==
    /\ src = [missing |-> "none", entries_dir |-> FALSE,
              entries |-> [e \in Names |-> [kind |-> "none", content |-> FALSE, tags |-> NoFile]],
              stale |-> {}]
    /\ files = EmptyMap
    /\ dirs = {}
    /\ pc = "idle"
    /\ result = "running"
    /\ todo = {}
    /\ tags_map = EmptyMap
    /\ tag_i = 1
    /\ writes = {}
    /\ runs = 1
    /\ prev = EmptyMap
    /\ \E T \in Templates, M \in PlaceholderMaps :
         rp = [T |-> T, M |-> M, remaining |-> DOMAIN M, result |-> T]

\* lines 17-19: the next (placeholder, replacement) pair the HashMap yields
ReplaceStep ==
    /\ rp.remaining # {}
    /\ \E placeholder \in rp.remaining :
         rp' = [rp EXCEPT !.result = Replace(rp.result, placeholder, rp.M[placeholder]),
                          !.remaining = rp.remaining \ {placeholder}]
    /\ UNCHANGED <<src, files, dirs, pc, result, todo, tags_map, tag_i, writes, runs, prev>>

NextRP == ReplaceStep

SpecRP == InitRP /\ [][NextRP]_vars

(***************************************************************************)
(* Properties of generate_site (checked under Spec).                       *)
(***************************************************************************)
Contains(s, pat) == \E i \in 1..Len(s) : IsMatchAt(s, i, pat)
CountMatches(s, pat) == Cardinality({i \in 1..Len(s) : IsMatchAt(s, i, pat)})
InPublic(p) == Len(p) >= 1 /\ p[1] = "public"
Finished == pc = "done"
Succeeded == pc = "done" /\ result = "ok"
Written(path, by) == \E w \in writes : w.path = path /\ w.by = by
EntryPagePath(e) == <<"public", "entries", e, "index.html">>
TagPagePath(t) == Resolve(<<"public", t, "index.html">>)
HomePath == <<"public", "index.html">>
ListingPath == <<"public", "entries", "index.html">>
SourceDirs == {e \in Names : src.entries[e].kind = "dir"}
\* the tokens of entries/<e>/tags.txt, read off the source tree
TokensOf(e) == IF src.entries[e].kind = "dir" /\ src.entries[e].tags.exists
               THEN {src.entries[e].tags.tokens[i] : i \in 1..Len(src.entries[e].tags.tokens)}
               ELSE {}
SourceTags == UNION {TokensOf(e) : e \in Names}
\* what a link to an entry ends with, on a tag page and on the listing alike
LinkTail(title) == <<title, "/index.html\">", title, "</a><br>">>
LinkedTitles(page) == {n \in Names \cup StaleNames : Contains(page, LinkTail(n))}
FromEmptyTree == runs = 1 /\ src.stale = {}

\* C1: with entries/ missing and every other input present, the run ends
\* successfully and has written the home page and the entries listing page.
C1_MissingEntriesIsNotFatal ==
    (Finished /\ src.missing = "none" /\ ~src.entries_dir)
        => (result = "ok" /\ Written(HomePath, "home") /\ Written(ListingPath, "listing"))

\* C2: after a successful run, for every tag t of some tags.txt, the file
\* public/t/index.html holds exactly one link per entry tagged t and no link
\* to any other entry.
C2_TagPageOfEveryTag ==
    (Succeeded /\ FromEmptyTree) =>
        \A t \in SourceTags :
            /\ TagPagePath(t) \in DOMAIN files
            /\ \A e \in Names \cup StaleNames :
                 CountMatches(files[TagPagePath(t)], LinkTail(e))
                    = IF e \in Names /\ t \in TokensOf(e) THEN 1 ELSE 0

\* C3: after a successful run, the entries listing page links exactly the
\* subdirectories of the source entries/ directory, in order of title,
\* whatever public/ held before the run.
C3_ListingIsSourceEntries ==
    Succeeded =>
        /\ ListingPath \in DOMAIN files
        /\ Contains(files[ListingPath],
                    <<"<main>">>
                    \o Concat([i \in 1..Len(Sorted(SourceDirs)) |-> ListLink(Sorted(SourceDirs)[i])])
                    \o <<"</main>">>)

\* C4: a second run over the unchanged source leaves every file under
\* public/ with the contents the first run gave it.
C4_SecondRunIdentical ==
    (Finished /\ runs > 1) => files = prev

IndexBuilt == pc \in {"tag_pages", "home", "listing"} \/ Succeeded
Occurrences(list, e) == Cardinality({i \in 1..Len(list) : list[i] = e})

\* C7: the index maps a tag t to a list holding entry e exactly once when
\* e's tags.txt contains the token t and not at all otherwise; no key maps
\* to an empty list.
C7_IndexHoldsEachTaggedEntryOnce ==
    IndexBuilt =>
        /\ \A t \in DOMAIN tags_map : tags_map[t] # <<>>
        /\ \A t \in Tags, e \in Names :
             (IF t \in DOMAIN tags_map THEN Occurrences(tags_map[t], e) ELSE 0)
                = IF t \in TokensOf(e) THEN 1 ELSE 0

C7_Witness ==
    /\ pc = "tag_pages"
    /\ \E e \in Names :
         /\ src.entries[e].kind = "dir"
         /\ src.entries[e].tags = TagsFile(<<"x", "x">>)
         /\ "x" \in DOMAIN tags_map
    /\ \E e \in Names : src.entries[e].kind = "dir" /\ ~src.entries[e].tags.exists

NoContent(e) == src.entries[e].kind = "dir" /\ ~src.entries[e].content

\* C8: an entry directory without content.html gets no entry page, and the
\* run still succeeds and writes the page of every entry that has one.
C8_MissingContentIsSkipped ==
    (Finished /\ src.missing = "none" /\ src.entries_dir /\ \E e \in Names : NoContent(e))
        => /\ result = "ok"
           /\ \A e \in SourceDirs :
                Written(EntryPagePath(e), "entry") <=> ~NoContent(e)
           /\ \A e \in SourceDirs : NoContent(e) => EntryPagePath(e) \notin DOMAIN files

C8_Witness ==
    /\ Succeeded
    /\ \E e1, e2 \in Names :
         /\ NoContent(e1)
         /\ src.entries[e2].kind = "dir" /\ src.entries[e2].content
         /\ Written(EntryPagePath(e2), "entry")

\* the titles linked by the tag pages and the listing page of this run
LinkedByRun == UNION {LinkedTitles(files[w.path]) : w \in {v \in writes : v.by \in {"tag", "listing"}}}

\* C9: after a successful run from an empty output tree, every linked title
\* has its page public/entries/<title>/index.html written by the run.
C9_EveryLinkHasItsPage ==
    (Succeeded /\ FromEmptyTree) =>
        \A n \in LinkedByRun : \E w \in writes : w.path = EntryPagePath(n)

\* C9 (amended): after a successful run from an empty output tree, every
\* linked title has its directory public/entries/<title>/, and its page was
\* written by the run whenever the source entry has a content.html.
C9_EveryLinkedContentHasItsPage ==
    (Succeeded /\ FromEmptyTree) =>
        \A n \in LinkedByRun :
            /\ <<"public", "entries", n>> \in dirs
            /\ (n \in SourceDirs /\ src.entries[n].content) => Written(EntryPagePath(n), "entry")

C9_Witness ==
    /\ Succeeded
    /\ FromEmptyTree
    /\ \E e \in SourceDirs :
         /\ src.entries[e].content
         /\ "x" \in TokensOf(e)
         /\ e \in LinkedTitles(files[TagPagePath("x")])
         /\ e \in LinkedTitles(files[ListingPath])

\* C10: every file the run writes and every directory it creates lies
\* inside public/.
C10_WritesStayInPublic ==
    /\ \A w \in writes : InPublic(w.path)
    /\ \A d \in dirs : InPublic(d)

(***************************************************************************)
(* Properties of replace_placeholders (checked under SpecRP).              *)
(***************************************************************************)
Replaced == pc = "idle" /\ rp.remaining = {}

\* C5: when the value of one key contains the token of another key, the
\* value appears verbatim in the result, its token not substituted again,
\* whatever order the keys are processed in.
C5_NoRescanOfInsertedValues ==
    Replaced =>
        \A k1, k2 \in DOMAIN rp.M :
            (k1 # k2 /\ Contains(rp.T, k1) /\ Contains(rp.M[k1], k2))
                => Contains(rp.result, rp.M[k1])

\* C6: the result contains no occurrence of a key whose value contains no
\* other key's token.
C6_NoKeyLeft ==
    Replaced =>
        \A k \in DOMAIN rp.M :
            (\A k2 \in DOMAIN rp.M \ {k} : ~Contains(rp.M[k], k2))
                => ~Contains(rp.result, k)

NoDollarInValues == \A k \in DOMAIN rp.M : ~Contains(rp.M[k], <<"$">>)
EveryDollarStartsKey ==
    \A i \in 1..Len(rp.T) : rp.T[i] = "$" => \E k \in DOMAIN rp.M : IsMatchAt(rp.T, i, k)

\* C6 (amended): when no value contains a '$' and every '$' of the
\* template begins an occurrence of a key of the map, the result contains
\* no occurrence of any key.
C6_NoKeyLeftInCleanTemplate ==
    (Replaced /\ NoDollarInValues /\ EveryDollarStartsKey)
        => \A k \in DOMAIN rp.M : ~Contains(rp.result, k)

C6_Witness ==
    /\ Replaced
    /\ NoDollarInValues
    /\ EveryDollarStartsKey
    /\ CountMatches(rp.T, KeyTitle) = 2
    /\ rp.M[KeyTitle] = FragTail

====
